---- MODULE Spec2Model ----
(***************************************************************************)
(* A model of lipszyc (src/main.go): a mirror of the wolnelektury.pl book  *)
(* catalogue.  The process reads the listing (books.json), and for every   *)
(* book makes a directory, reads the detail record (details.json) and      *)
(* every format file the record names.  Every read goes through            *)
(* cachedFile, which serves a local file when there is one and downloads   *)
(* and saves it otherwise.                                                 *)
(*                                                                         *)
(* The filesystem and the origin server are the environment: the cache     *)
(* that a run starts from is whatever earlier runs left, and the answer to *)
(* a GET, the outcome of a write and of a mkdir are chosen by the          *)
(* environment at each call.                                               *)
(***************************************************************************)
EXTENDS Integers, Sequences, FiniteSets, TLC

VARIABLES
    offline,     \* *Offline, the -offline flag of this run
    files,       \* regular files on disk: path -> content
    entries,     \* what the name <slug> is in the working directory
    unreadable,  \* paths whose read fails with a permission error
    pc,          \* position of the process in main / ObtainBook
    books,       \* main: the decoded listing
    idx,         \* main: index of bookBase in the range over books
    book,        \* ObtainBook: the BookDetails returned by Details()
    f,           \* ObtainBook: the map returned by book.Files()
    todo,        \* ObtainBook: keys of f the range loop has not visited
    err,         \* the error handed to log.Fatal, Nil while running
    netCalls,    \* number of httpClient.Get calls of this run
    created,     \* paths this run has written with ioutil.WriteFile
    last,        \* the latest cachedFile call: arguments and results
    start,       \* the book, the disk and netCalls when the latest ObtainBook began
    run,         \* ordinal of the run
    fetched,     \* paths this run has passed to cachedFile
    made,        \* directories this run has created with os.Mkdir
    saved,       \* paths downloaded and written without error, in any run
    poison       \* the first download that was saved and then failed to decode

vars == <<offline, files, entries, unreadable, pc, books, idx, book, f, todo,
          err, netCalls, created, last, start, run, fetched, made, saved,
          poison>>

(***************************************************************************)
(* Bounds of the model.                                                    *)
(***************************************************************************)
MaxRuns == 3

(***************************************************************************)
(* Values.                                                                 *)
(***************************************************************************)
Nil == "<nil>"

BooksFile == "books.json"
DetailsFile == "details.json"
ApiBooksUrl == "https://wolnelektury.pl/api/books/"
ErrOffline == "resource unavailable: offline flag specified"

\* errors of the operating system and of the libraries, by their kind
ENOENT == "ENOENT"
EACCES == "EACCES"
ENOTDIR == "ENOTDIR"
EEXIST == "EEXIST"
ENOSPC == "ENOSPC"
ErrTransport == "Get: transport error"
ErrBodyRead == "ReadAll: unexpected EOF"
ErrDecode == "json: cannot decode"
ErrNilDeref == "panic: nil pointer dereference"

Slugs == {"lorem", "foo"}

\* The seven formats of BookDetails, in the order Files() tests them.
Formats == <<"txt", "xml", "html", "fb2", "epub", "mobi", "pdf">>
FormatSet == {Formats[i] : i \in 1..Len(Formats)}

(***************************************************************************)
(* The filesystem.  A path is the sequence of its components:              *)
(* <<"books.json">> in the working directory, <<slug, name>> for           *)
(* path.Join(slug, name).  entries[d] says what the name d is in the       *)
(* working directory: nothing, a directory or a regular file.              *)
(***************************************************************************)
Join(dir, name) == <<dir, name>>

EntryOf(name) == IF name \in DOMAIN entries THEN entries[name] ELSE "none"

Put(fs, filePath, content) ==
    [q \in DOMAIN fs \cup {filePath} |-> IF q = filePath THEN content ELSE fs[q]]

\* ioutil.ReadFile: the content, or the error of open/read.
ReadFile(filePath) ==
    IF Len(filePath) = 2 /\ EntryOf(filePath[1]) = "file"
    THEN [content |-> "", err |-> ENOTDIR]
    ELSE IF Len(filePath) = 2 /\ EntryOf(filePath[1]) = "none"
    THEN [content |-> "", err |-> ENOENT]
    ELSE IF filePath \in unreadable
    THEN [content |-> "", err |-> EACCES]
    ELSE IF filePath \notin DOMAIN files
    THEN [content |-> "", err |-> ENOENT]
    ELSE [content |-> files[filePath], err |-> Nil]

\* os.IsNotExist and os.IsExist
IsNotExist(e) == e = ENOENT
IsExist(e) == e = EEXIST

\* Outcomes of a write the environment may choose: the file is written; the
\* open fails and nothing is created; the file is created and truncated but
\* the write fails (a full disk), which leaves an empty file.
WriteOutcomes == {"ok", "open", "short"}

\* ioutil.WriteFile(filePath, content, 0644): the disk after it, and its error.
WriteFile(filePath, content, wr) ==
    IF Len(filePath) = 2 /\ EntryOf(filePath[1]) = "none"
    THEN [files |-> files, err |-> ENOENT]
    ELSE IF Len(filePath) = 2 /\ EntryOf(filePath[1]) = "file"
    THEN [files |-> files, err |-> ENOTDIR]
    ELSE IF wr = "ok"
    THEN [files |-> Put(files, filePath, content), err |-> Nil]
    ELSE IF wr = "short"
    THEN [files |-> Put(files, filePath, ""), err |-> ENOSPC]
    ELSE [files |-> files, err |-> EACCES]

(***************************************************************************)
(* The origin server.  httpClient.Get returns an error only when the       *)
(* transport fails; a response with any status, 404 included, is a         *)
(* response.  ioutil.ReadAll may fail while the body is read.              *)
(***************************************************************************)
NotFoundPage == "<html>404 Not Found</html>"

ListEmpty == "[]"
ListLorem == "[{\"slug\":\"lorem\",\"href\":\"http://api/lorem/\"}]"
ListLoremFoo ==
    "[{\"slug\":\"lorem\",\"href\":\"http://api/lorem/\"},{\"slug\":\"foo\",\"href\":\"http://api/foo/\"}]"

DetailTxtPdf ==
    "{\"title\":\"T\",\"txt\":\"http://x/a.txt\",\"xml\":\"\",\"html\":\"\",\"fb2\":\"\",\"epub\":\"\",\"mobi\":\"\",\"pdf\":\"http://x/a.pdf\"}"
DetailEpub ==
    "{\"slug\":\"other\",\"txt\":\"#\",\"xml\":\"\",\"html\":\"\",\"fb2\":\"\",\"epub\":\"http://x/a.epub\",\"mobi\":\"\",\"pdf\":\"\"}"
DetailBare == "{\"title\":\"T\"}"
DetailBadUrl == "{\"txt\":\":\"}"

FileBody == "Lorem ipsum"

Href(slug) == "http://api/" \o slug \o "/"

ListingBodies == {ListEmpty, ListLorem, ListLoremFoo}
DetailBodies == {DetailTxtPdf, DetailEpub, DetailBare, DetailBadUrl}

\* The bodies the origin may serve with status 200 at a URL.
Origin(originUrl) ==
    IF originUrl = ApiBooksUrl THEN ListingBodies
    ELSE IF originUrl \in {Href(s) : s \in Slugs} THEN DetailBodies
    ELSE {FileBody}

\* What httpClient.Get(originUrl) followed by ioutil.ReadAll may produce.
Get(originUrl) ==
    {[err |-> ErrTransport, status |-> 0, body |-> "", bodyErr |-> Nil],
     [err |-> Nil, status |-> 200, body |-> "", bodyErr |-> ErrBodyRead],
     [err |-> Nil, status |-> 404, body |-> NotFoundPage, bodyErr |-> Nil]}
    \cup {[err |-> Nil, status |-> 200, body |-> b, bodyErr |-> Nil] :
             b \in Origin(originUrl)}

(***************************************************************************)
(* cachedFile(filePath, originUrl): the bytes and the error it returns,    *)
(* the disk it leaves, and the GET it issued if any.  resp and wr are the  *)
(* environment's answers to the GET and to the write, used only when the   *)
(* code gets that far.                                                     *)
(***************************************************************************)
\* A return of cachedFile before any GET: the disk is as it was.
Local(content, e) ==
    [content |-> content, err |-> e, files |-> files,
     net |-> 0, got |-> Nil, wrote |-> FALSE]

\* Mutant: the body is returned but never saved.
DownloadNotSaved(filePath, originUrl, resp, wr) ==
    IF resp.err # Nil
    THEN [content |-> "", err |-> resp.err, files |-> files,
          net |-> 1, got |-> originUrl, wrote |-> FALSE]
    ELSE [content |-> resp.body, err |-> resp.bodyErr, files |-> files,
          net |-> 1, got |-> originUrl, wrote |-> FALSE]

\* Mutant: when the write fails the bytes are dropped.
DownloadDropsBytes(filePath, originUrl, resp, wr) ==
    IF resp.err # Nil
    THEN [content |-> "", err |-> resp.err, files |-> files,
          net |-> 1, got |-> originUrl, wrote |-> FALSE]
    ELSE IF resp.bodyErr # Nil
    THEN [content |-> resp.body, err |-> resp.bodyErr, files |-> files,
          net |-> 1, got |-> originUrl, wrote |-> FALSE]
    ELSE LET w == WriteFile(filePath, resp.body, wr) IN
         [content |-> IF w.err = Nil THEN resp.body ELSE "", err |-> w.err,
          files |-> w.files, net |-> 1, got |-> originUrl, wrote |-> TRUE]

\* The download, lines 122-137: one GET, the body read in full, the write.
\* The error of the write is returned with the bytes.
Download(filePath, originUrl, resp, wr) ==
    IF resp.err # Nil
    THEN [content |-> "", err |-> resp.err, files |-> files,
          net |-> 1, got |-> originUrl, wrote |-> FALSE]
    ELSE IF resp.bodyErr # Nil
    THEN [content |-> resp.body, err |-> resp.bodyErr, files |-> files,
          net |-> 1, got |-> originUrl, wrote |-> FALSE]
    ELSE LET w == WriteFile(filePath, resp.body, wr) IN
         [content |-> resp.body, err |-> w.err, files |-> w.files,
          net |-> 1, got |-> originUrl, wrote |-> TRUE]

\* Mutant: the local file is never consulted.
cachedFileNoCache(filePath, originUrl, resp, wr) ==
    IF offline THEN Local("", ErrOffline)
    ELSE Download(filePath, originUrl, resp, wr)

\* Mutant: the offline flag is not tested.
cachedFileIgnoresOffline(filePath, originUrl, resp, wr) ==
    LET rd == ReadFile(filePath) IN
    IF rd.err = Nil THEN Local(rd.content, Nil)
    ELSE IF ~IsNotExist(rd.err) THEN Local(rd.content, rd.err)
    ELSE Download(filePath, originUrl, resp, wr)

\* Mutant: every error of the local read counts as a miss.
cachedFileAnyReadError(filePath, originUrl, resp, wr) ==
    LET rd == ReadFile(filePath) IN
    IF rd.err = Nil THEN Local(rd.content, Nil)
    ELSE IF offline THEN Local("", ErrOffline)
    ELSE Download(filePath, originUrl, resp, wr)

\* Mutant: a cached file is downloaded again when the origin can be reached
\* (the "redownload" the source leaves as a TODO).
cachedFileRefresh(filePath, originUrl, resp, wr) ==
    LET rd == ReadFile(filePath) IN
    IF rd.err = Nil /\ offline THEN Local(rd.content, Nil)
    ELSE IF rd.err # Nil /\ ~IsNotExist(rd.err) THEN Local(rd.content, rd.err)
    ELSE IF offline THEN Local("", ErrOffline)
    ELSE Download(filePath, originUrl, resp, wr)

cachedFile(filePath, originUrl, resp, wr) ==
    LET rd == ReadFile(filePath) IN
    IF rd.err = Nil THEN Local(rd.content, Nil)
    ELSE IF ~IsNotExist(rd.err) THEN Local(rd.content, rd.err)
    ELSE IF offline THEN Local("", ErrOffline)
    ELSE Download(filePath, originUrl, resp, wr)

(***************************************************************************)
(* JSON.  A body is the text itself; JsonBooks and JsonDetail give the     *)
(* value encoding/json parses it to (Absent for a key the object lacks),   *)
(* and the Unmarshal operators build the Go values from it as the custom   *)
(* UnmarshalJSON of JsonURL does.                                          *)
(***************************************************************************)
Absent == "<absent>"
Malformed == "<malformed>"

\* url.Parse(s) followed by String(): an empty reference and a bare "#"
\* both print as "", ":" does not parse.
UrlParses(s) == s # ":"
UrlString(s) == IF s = "#" THEN "" ELSE s

\* JsonURL.UnmarshalJSON on a string value: the JsonURL, whose u is kept as
\* the string form of the parsed URL.
UnmarshalJSON(s) ==
    IF UrlParses(s) THEN [err |-> Nil, j |-> [u |-> UrlString(s)]]
    ELSE [err |-> ErrDecode, j |-> [u |-> Nil]]

\* The zero JsonURL of a key that was not decoded: u is a nil pointer.
ZeroURL == [u |-> Nil]

BookEssential(slug) == [Slug |-> slug, Href |-> [u |-> Href(slug)]]

\* The slugs of the array a listing body holds; a body that is no JSON
\* array is marked by the single entry Malformed.
JsonBooks(content) ==
    IF content = ListEmpty THEN <<>>
    ELSE IF content = ListLorem THEN <<"lorem">>
    ELSE IF content = ListLoremFoo THEN <<"lorem", "foo">>
    ELSE <<Malformed>>

\* json.Unmarshal(content, &books) in BooksList
UnmarshalBooks(content) ==
    LET v == JsonBooks(content) IN
    IF v = <<Malformed>> THEN [err |-> ErrDecode, books |-> <<>>]
    ELSE [err |-> Nil, books |-> [i \in 1..Len(v) |-> BookEssential(v[i])]]

NoKeys == [k \in {"slug"} \cup FormatSet |-> Absent]

JsonDetail(content) ==
    IF content = DetailTxtPdf
    THEN [k \in DOMAIN NoKeys |->
             IF k = "slug" THEN Absent
             ELSE IF k = "txt" THEN "http://x/a.txt"
             ELSE IF k = "pdf" THEN "http://x/a.pdf" ELSE ""]
    ELSE IF content = DetailEpub
    THEN [k \in DOMAIN NoKeys |->
             IF k = "slug" THEN "other"
             ELSE IF k = "txt" THEN "#"
             ELSE IF k = "epub" THEN "http://x/a.epub" ELSE ""]
    ELSE IF content = DetailBare THEN NoKeys
    ELSE IF content = DetailBadUrl THEN [NoKeys EXCEPT !["txt"] = ":"]
    ELSE [NoKeys EXCEPT !["slug"] = Malformed]

\* The field of BookDetails decoded from key k of object o.
Field(o, k) == IF o[k] = Absent THEN ZeroURL ELSE UnmarshalJSON(o[k]).j

\* json.Unmarshal(content, &book) in Details
UnmarshalDetails(content) ==
    LET o == JsonDetail(content) IN
    IF o["slug"] = Malformed
    THEN [err |-> ErrDecode,
          book |-> [Slug |-> "", Txt |-> ZeroURL, Xml |-> ZeroURL,
                    Html |-> ZeroURL, Fb2 |-> ZeroURL, Epub |-> ZeroURL,
                    Mobi |-> ZeroURL, Pdf |-> ZeroURL]]
    ELSE [err |-> IF \E k \in FormatSet :
                        o[k] # Absent /\ UnmarshalJSON(o[k]).err # Nil
                  THEN ErrDecode ELSE Nil,
          book |-> [Slug |-> IF o["slug"] = Absent THEN "" ELSE o["slug"],
                    Txt |-> Field(o, "txt"), Xml |-> Field(o, "xml"),
                    Html |-> Field(o, "html"), Fb2 |-> Field(o, "fb2"),
                    Epub |-> Field(o, "epub"), Mobi |-> Field(o, "mobi"),
                    Pdf |-> Field(o, "pdf")]]

(***************************************************************************)
(* BookDetails.Files.  JsonURL.String calls u.String(), which dereferences *)
(* u: on a nil u the call panics.                                          *)
(***************************************************************************)
String(j) == j.u

FormatURLs(b) == <<b.Txt, b.Xml, b.Html, b.Fb2, b.Epub, b.Mobi, b.Pdf>>

FilesPanics(b) == \E i \in 1..Len(Formats) : FormatURLs(b)[i].u = Nil

\* Mutant: a format is listed whether or not its URL is empty.
FilesAll(b) ==
    [fileName \in {b.Slug \o "." \o Formats[i] : i \in 1..Len(Formats)} |->
        FormatURLs(b)[CHOOSE i \in 1..Len(Formats) :
                         fileName = b.Slug \o "." \o Formats[i]]]

\* The map Files() returns, when no String() call panics.
Files(b) ==
    LET has == {i \in 1..Len(Formats) : String(FormatURLs(b)[i]) # ""} IN
    [fileName \in {b.Slug \o "." \o Formats[i] : i \in has} |->
        FormatURLs(b)[CHOOSE i \in has : fileName = b.Slug \o "." \o Formats[i]]]

(***************************************************************************)
(* The functions of the catalogue client, as the values they return.  r is *)
(* the cachedFile call they make.                                          *)
(***************************************************************************)
BooksList(resp, wr) ==
    LET r == cachedFile(<<BooksFile>>, ApiBooksUrl, resp, wr)
        d == UnmarshalBooks(r.content)
    IN IF r.err # Nil THEN [books |-> <<>>, err |-> r.err, r |-> r]
       ELSE [books |-> d.books, err |-> d.err, r |-> r]

ZeroBook ==
    [Slug |-> "", Txt |-> ZeroURL, Xml |-> ZeroURL, Html |-> ZeroURL,
     Fb2 |-> ZeroURL, Epub |-> ZeroURL, Mobi |-> ZeroURL, Pdf |-> ZeroURL]

\* Mutant: the deferred assignment of book.Slug is missing.
DetailsNoBackfill(b, resp, wr) ==
    LET r == cachedFile(Join(b.Slug, DetailsFile), b.Href.u, resp, wr)
        d == UnmarshalDetails(r.content)
    IN IF r.err # Nil THEN [book |-> ZeroBook, err |-> r.err, r |-> r]
       ELSE [book |-> d.book, err |-> d.err, r |-> r]

\* BookEssential.Details: the deferred assignment sets book.Slug on every
\* return path.
Details(b, resp, wr) ==
    LET r == cachedFile(Join(b.Slug, DetailsFile), b.Href.u, resp, wr)
        d == UnmarshalDetails(r.content)
    IN IF r.err # Nil
       THEN [book |-> [ZeroBook EXCEPT !.Slug = b.Slug], err |-> r.err, r |-> r]
       ELSE [book |-> [d.book EXCEPT !.Slug = b.Slug], err |-> d.err, r |-> r]

\* os.Mkdir(name, 0755); mk is the environment's answer when the name is free.
Mkdir(name, mk) ==
    IF EntryOf(name) # "none" THEN [entries |-> entries, err |-> EEXIST]
    ELSE IF mk = "ok"
    THEN [entries |-> [entries EXCEPT ![name] = "dir"], err |-> Nil]
    ELSE [entries |-> entries, err |-> EACCES]

(***************************************************************************)
(* The process.                                                            *)
(***************************************************************************)
\* No response: the value of last.resp when the call issued no GET.
NoResp == [err |-> Nil, status |-> 0, body |-> "", bodyErr |-> Nil]

\* No download has been saved and then failed to decode.
NoPoison == [path |-> <<>>, idx |-> 0, run |-> 0]

NoCall ==
    [path |-> <<>>, url |-> Nil, offline |-> FALSE, rd |-> Nil,
     resp |-> NoResp, wr |-> Nil, before |-> <<>>, content |-> "",
     err |-> Nil, net |-> 0, got |-> Nil, after |-> <<>>]

Init ==
    /\ offline \in BOOLEAN
    /\ files = <<>>
    /\ entries \in [Slugs -> {"none", "dir", "file"}]
    /\ unreadable \in {{}, {<<BooksFile>>}, {Join("lorem", DetailsFile)},
                       {Join("lorem", "lorem.txt")}}
    /\ \A q \in unreadable : Len(q) = 2 => entries[q[1]] = "dir"
    /\ pc = "list"
    /\ books = <<>>
    /\ idx = 0
    /\ book = ZeroBook
    /\ f = <<>>
    /\ todo = {}
    /\ err = Nil
    /\ netCalls = 0
    /\ created = {}
    /\ last = NoCall
    /\ start = [slug |-> Nil, files |-> <<>>, entries |-> entries, net |-> 0]
    /\ run = 1
    /\ fetched = {}
    /\ made = {}
    /\ saved = {}
    /\ poison = NoPoison

\* Mutant: the error is logged and the traversal goes on with the next book.
FatalSkips(e) == pc' = "loop" /\ err' = e

\* log.Fatal(e): the process exits.
Fatal(e) == pc' = "aborted" /\ err' = e

\* What a cachedFile call with result r does to the disk and the counters.
\* last keeps the call: its arguments, the error of the local read before it,
\* the response to its GET and the outcome of its write when it got that far,
\* the disk before and after, and what it returned.
Called(filePath, originUrl, resp, wr, r) ==
    /\ files' = r.files
    /\ netCalls' = netCalls + r.net
    /\ created' = IF r.files # files THEN created \cup {filePath} ELSE created
    /\ fetched' = fetched \cup {filePath}
    /\ saved' = IF r.net = 1 /\ r.err = Nil THEN saved \cup {filePath} ELSE saved
    /\ last' = [path |-> filePath, url |-> originUrl, offline |-> offline,
                rd |-> ReadFile(filePath).err,
                resp |-> IF r.net = 1 THEN resp ELSE NoResp,
                wr |-> IF r.wrote THEN wr ELSE Nil,
                before |-> files, content |-> r.content, err |-> r.err,
                net |-> r.net, got |-> r.got, after |-> r.files]

\* poison after a call r whose bytes were then decoded with error e at book i:
\* it records the first body that was downloaded and saved and did not decode.
Poisoned(filePath, r, e, i) ==
    IF poison = NoPoison /\ r.net = 1 /\ r.err = Nil /\ e # Nil
    THEN [path |-> filePath, idx |-> i, run |-> run]
    ELSE poison

\* main: books, err := BooksList(); if err != nil { log.Fatal(err) }
MainBooksList ==
    /\ pc = "list"
    /\ \E resp \in Get(ApiBooksUrl), wr \in WriteOutcomes :
          LET l == BooksList(resp, wr) IN
          /\ Called(<<BooksFile>>, ApiBooksUrl, resp, wr, l.r)
          /\ poison' = Poisoned(<<BooksFile>>, l.r, l.err, 0)
          /\ IF l.err # Nil
             THEN Fatal(l.err) /\ UNCHANGED <<books, idx>>
             ELSE books' = l.books /\ idx' = 1 /\ pc' = "loop" /\ err' = err
    /\ UNCHANGED <<offline, entries, unreadable, book, f, todo, start, run>>
    /\ UNCHANGED made

\* main: the range loop takes the next bookBase and calls ObtainBook.
MainNextBook ==
    /\ pc = "loop"
    /\ idx <= Len(books)
    /\ pc' = "mkdir"
    /\ start' = [slug |-> books[idx].Slug, files |-> files,
                 entries |-> entries, net |-> netCalls]
    /\ UNCHANGED <<offline, files, entries, unreadable, books, idx, book, f,
                   todo, err, netCalls, created, last, run>>
    /\ UNCHANGED <<fetched, made, saved, poison>>

\* main: the range is exhausted; progress.Finish() and the process ends.
MainFinish ==
    /\ pc = "loop"
    /\ idx > Len(books)
    /\ pc' = "done"
    /\ UNCHANGED <<offline, files, entries, unreadable, books, idx, book, f,
                   todo, err, netCalls, created, last, start, run>>
    /\ UNCHANGED <<fetched, made, saved, poison>>

\* ObtainBook: os.Mkdir(b.Slug); an error other than "exists" is fatal.
ObtainBookMkdir ==
    /\ pc = "mkdir"
    /\ \E mk \in {"ok", "fail"} :
          LET m == Mkdir(books[idx].Slug, mk) IN
          /\ entries' = m.entries
          /\ made' = IF m.err = Nil THEN made \cup {books[idx].Slug} ELSE made
          /\ IF m.err # Nil /\ ~IsExist(m.err)
             THEN Fatal(m.err)
             ELSE pc' = "details" /\ err' = err
    /\ UNCHANGED <<offline, files, unreadable, books, idx, book, f, todo,
                   netCalls, created, last, start, run>>
    /\ UNCHANGED <<fetched, saved, poison>>

\* Mutant: the error of Details() is not tested.
ObtainBookDetailsIgnoresError ==
    /\ pc = "details"
    /\ \E resp \in Get(books[idx].Href.u), wr \in WriteOutcomes :
          LET b == books[idx]
              d == Details(b, resp, wr)
          IN /\ Called(Join(b.Slug, DetailsFile), b.Href.u, resp, wr, d.r)
             /\ poison' = Poisoned(Join(b.Slug, DetailsFile), d.r, d.err, idx)
             /\ book' = d.book
             /\ pc' = "resolve" /\ err' = err
    /\ UNCHANGED <<offline, entries, unreadable, books, idx, f, todo, start, run>>
    /\ UNCHANGED made

\* ObtainBook: book, err = b.Details(); an error is fatal.
ObtainBookDetails ==
    /\ pc = "details"
    /\ \E resp \in Get(books[idx].Href.u), wr \in WriteOutcomes :
          LET b == books[idx]
              d == Details(b, resp, wr)
          IN /\ Called(Join(b.Slug, DetailsFile), b.Href.u, resp, wr, d.r)
             /\ book' = d.book
             /\ poison' = Poisoned(Join(b.Slug, DetailsFile), d.r, d.err, idx)
             /\ IF d.err # Nil THEN Fatal(d.err)
                ELSE pc' = "resolve" /\ err' = err
    /\ UNCHANGED <<offline, entries, unreadable, books, idx, f, todo, start, run>>
    /\ UNCHANGED made

\* ObtainBook: the range expression book.Files() is evaluated once.
ObtainBookFiles ==
    /\ pc = "resolve"
    /\ IF FilesPanics(book)
       THEN Fatal(ErrNilDeref) /\ UNCHANGED <<f, todo>>
       ELSE /\ f' = Files(book)
            /\ todo' = DOMAIN Files(book)
            /\ pc' = "files"
            /\ err' = err
    /\ UNCHANGED <<offline, files, entries, unreadable, books, idx, book,
                   netCalls, created, last, start, run>>
    /\ UNCHANGED <<fetched, made, saved, poison>>

\* Mutant: the error of a format file is dropped and the loop goes on.
ObtainBookFetchIgnoresError ==
    /\ pc = "files"
    /\ \E fileName \in todo :
          \E resp \in Get(String(f[fileName])), wr \in WriteOutcomes :
             LET b == books[idx]
                 filePath == Join(b.Slug, fileName)
                 r == cachedFile(filePath, String(f[fileName]), resp, wr)
             IN /\ Called(filePath, String(f[fileName]), resp, wr, r)
                /\ todo' = todo \ {fileName}
                /\ pc' = pc /\ err' = err
    /\ UNCHANGED <<offline, entries, unreadable, books, idx, book, f, start, run>>
    /\ UNCHANGED <<made, poison>>

\* ObtainBook: one iteration of the range over the map, in any order.
ObtainBookFetch ==
    /\ pc = "files"
    /\ \E fileName \in todo :
          \E resp \in Get(String(f[fileName])), wr \in WriteOutcomes :
             LET b == books[idx]
                 filePath == Join(b.Slug, fileName)
                 r == cachedFile(filePath, String(f[fileName]), resp, wr)
             IN /\ Called(filePath, String(f[fileName]), resp, wr, r)
                /\ todo' = todo \ {fileName}
                /\ IF r.err # Nil THEN Fatal(r.err)
                   ELSE pc' = pc /\ err' = err
    /\ UNCHANGED <<offline, entries, unreadable, books, idx, book, f, start, run>>
    /\ UNCHANGED <<made, poison>>

\* Mutant: the loop of main does not advance to the next book.
ObtainBookReturnStays ==
    /\ pc = "files"
    /\ todo = {}
    /\ pc' = "loop"
    /\ idx' = idx
    /\ UNCHANGED <<offline, files, entries, unreadable, books, book, f, todo,
                   err, netCalls, created, last, start, run>>
    /\ UNCHANGED <<fetched, made, saved, poison>>

\* ObtainBook returns; progress.Increment().
ObtainBookReturn ==
    /\ pc = "files"
    /\ todo = {}
    /\ pc' = "loop"
    /\ idx' = idx + 1
    /\ UNCHANGED <<offline, files, entries, unreadable, books, book, f, todo,
                   err, netCalls, created, last, start, run>>
    /\ UNCHANGED <<fetched, made, saved, poison>>

\* The program is started again on the disk the last run left.
StartRun ==
    /\ pc \in {"done", "aborted"}
    /\ run < MaxRuns
    /\ run' = run + 1
    /\ offline' \in BOOLEAN
    /\ pc' = "list"
    /\ books' = <<>>
    /\ idx' = 0
    /\ book' = ZeroBook
    /\ f' = <<>>
    /\ todo' = {}
    /\ err' = Nil
    /\ netCalls' = 0
    /\ created' = {}
    /\ last' = NoCall
    /\ start' = [slug |-> Nil, files |-> files, entries |-> entries, net |-> 0]
    /\ fetched' = {}
    /\ made' = {}
    /\ UNCHANGED <<files, entries, unreadable, saved, poison>>

Next ==
    \/ MainBooksList
    \/ MainNextBook
    \/ MainFinish
    \/ ObtainBookMkdir
    \/ ObtainBookDetails
    \/ ObtainBookFiles
    \/ ObtainBookFetch
    \/ ObtainBookReturn
    \/ StartRun

Spec == Init /\ [][Next]_vars

\* A step of the running process.  The process is sequential and has no
\* timeout of its own (lines 93-99): a step is taken once the GET or the
\* filesystem call it blocks on returns, which the fairness of SpecLive
\* assumes.  When the program is started again is up to the user.
RunStep ==
    \/ MainBooksList
    \/ MainNextBook
    \/ MainFinish
    \/ ObtainBookMkdir
    \/ ObtainBookDetails
    \/ ObtainBookFiles
    \/ ObtainBookFetch
    \/ ObtainBookReturn

SpecLive == Init /\ [][Next]_vars /\ WF_vars(RunStep)

(***************************************************************************)
(* Files() on its own: every BookDetails whose seven URLs are a nil        *)
(* pointer, the empty reference or the URL of the format, under either     *)
(* slug; the one step is the evaluation of book.Files().                   *)
(***************************************************************************)
FormatURL(i) == "http://x/a." \o Formats[i]

UrlOptions(i) == {Nil, "", FormatURL(i)}

AllBookDetails ==
    {[Slug |-> s, Txt |-> [u |-> u[1]], Xml |-> [u |-> u[2]],
      Html |-> [u |-> u[3]], Fb2 |-> [u |-> u[4]], Epub |-> [u |-> u[5]],
      Mobi |-> [u |-> u[6]], Pdf |-> [u |-> u[7]]] :
        s \in Slugs,
        u \in UrlOptions(1) \X UrlOptions(2) \X UrlOptions(3) \X UrlOptions(4)
              \X UrlOptions(5) \X UrlOptions(6) \X UrlOptions(7)}

InitFiles ==
    /\ offline = FALSE
    /\ files = <<>>
    /\ entries = [s \in Slugs |-> "dir"]
    /\ unreadable = {}
    /\ pc = "resolve"
    /\ books = <<>>
    /\ idx = 0
    /\ book \in AllBookDetails
    /\ f = <<>>
    /\ todo = {}
    /\ err = Nil
    /\ netCalls = 0
    /\ created = {}
    /\ last = NoCall
    /\ start = [slug |-> Nil, files |-> <<>>, entries |-> entries, net |-> 0]
    /\ run = 1
    /\ fetched = {}
    /\ made = {}
    /\ saved = {}
    /\ poison = NoPoison

NextFiles == ObtainBookFiles

SpecFiles == InitFiles /\ [][NextFiles]_vars

(***************************************************************************)
(* Properties of cachedFile, stated of the latest call (last).             *)
(***************************************************************************)
CalledOnce == last.path # <<>>

\* C1: a call on a path that exists and is readable returns exactly the
\* stored content with no error, issues no GET and leaves the disk as it
\* was, online and offline alike, whatever the origin would serve.
CacheHit ==
    (CalledOnce /\ last.rd = Nil) =>
        /\ last.content = last.before[last.path]
        /\ last.err = Nil
        /\ last.net = 0
        /\ last.got = Nil
        /\ last.after = last.before

\* C1 witness: an online call served the cached listing of one book while
\* the origin serves other listings at that URL.
CacheHitWitness ==
    /\ CalledOnce
    /\ last.rd = Nil
    /\ ~last.offline
    /\ last.path = <<BooksFile>>
    /\ last.content = ListLorem
    /\ ListLoremFoo \in Origin(last.url)
    /\ netCalls = 0

\* C2: offline, a call on a path that does not exist returns ErrOffline,
\* issues no GET and leaves the disk exactly as it was.
OfflineMiss ==
    (CalledOnce /\ last.offline /\ IsNotExist(last.rd)) =>
        /\ last.err = ErrOffline
        /\ last.net = 0
        /\ last.got = Nil
        /\ last.after = last.before

\* C2 witness: an offline call on a detail record that is not cached.
OfflineMissWitness ==
    /\ CalledOnce
    /\ last.offline
    /\ IsNotExist(last.rd)
    /\ last.path = Join("lorem", DetailsFile)
    /\ last.err = ErrOffline
    /\ pc = "aborted"

\* C3 as stated: online, a call on a path that does not exist issues
\* exactly one GET to originUrl, leaves the response body at the path and
\* returns the bytes a read of the path gives afterwards.
OnlineMissAlwaysWrites ==
    (CalledOnce /\ ~last.offline /\ IsNotExist(last.rd)) =>
        /\ last.net = 1
        /\ last.got = last.url
        /\ last.path \in DOMAIN last.after
        /\ last.after[last.path] = last.resp.body
        /\ last.content = last.after[last.path]

\* C3 amended: online, a call on a path that does not exist issues exactly
\* one GET to originUrl; when it returns no error, the path holds the
\* response body verbatim, nothing else on disk changed, and the bytes
\* returned are those a read of the path gives.  When the GET or the
\* reading of the body fails, the call returns that error and nothing is
\* written; when the write fails, the call returns its error and the path
\* is left absent or truncated, the rest of the disk as it was.
OnlineMiss ==
    (CalledOnce /\ ~last.offline /\ IsNotExist(last.rd)) =>
        /\ last.net = 1
        /\ last.got = last.url
        /\ last.err = Nil =>
              /\ last.path \in DOMAIN last.after
              /\ last.after[last.path] = last.resp.body
              /\ last.content = last.after[last.path]
              /\ last.after = Put(last.before, last.path, last.resp.body)
        /\ last.resp.err # Nil =>
              /\ last.err = last.resp.err
              /\ last.wr = Nil
              /\ last.after = last.before
        /\ (last.resp.err = Nil /\ last.resp.bodyErr # Nil) =>
              /\ last.err = last.resp.bodyErr
              /\ last.wr = Nil
              /\ last.after = last.before
        /\ (last.resp.err = Nil /\ last.resp.bodyErr = Nil) => last.wr # Nil
        /\ (last.wr # Nil /\ last.err # Nil) =>
              /\ last.path \notin DOMAIN last.before
              /\ \/ last.after = last.before
                 \/ last.after = Put(last.before, last.path, "")

\* C3 witness: the text of a book was downloaded and saved.
OnlineMissWitness ==
    /\ CalledOnce
    /\ ~last.offline
    /\ IsNotExist(last.rd)
    /\ last.err = Nil
    /\ last.path = Join("lorem", "lorem.txt")
    /\ last.resp.status = 200
    /\ files[last.path] = FileBody

\* C4: when the local read fails with an error other than "does not
\* exist", the call returns that error, issues no GET and leaves the disk
\* as it was, online and offline alike.
ReadError ==
    (CalledOnce /\ last.rd # Nil /\ ~IsNotExist(last.rd)) =>
        /\ last.err = last.rd
        /\ last.net = 0
        /\ last.got = Nil
        /\ last.after = last.before

\* C4 witness: online, the read of the listing failed on permissions.
ReadErrorWitness ==
    /\ CalledOnce
    /\ ~last.offline
    /\ last.rd = EACCES
    /\ last.path = <<BooksFile>>
    /\ last.err = EACCES
    /\ pc = "aborted"

\* C5 as stated: online, when the GET for a missing path ends in a
\* transport failure or in an HTTP failure (a status of 400 or more), the
\* call returns an error and no file exists at the path afterwards.
NetworkFailure ==
    (/\ CalledOnce
     /\ ~last.offline
     /\ IsNotExist(last.rd)
     /\ (last.resp.err # Nil \/ last.resp.status >= 400)) =>
        /\ last.err # Nil
        /\ last.path \notin DOMAIN last.after

(***************************************************************************)
(* Properties of a run.                                                    *)
(***************************************************************************)
DetailsPath(slug) == Join(slug, DetailsFile)

\* The BookDetails that Details() decodes from the disk fs for slug.
CachedDetails(fs, slug) ==
    LET d == UnmarshalDetails(fs[DetailsPath(slug)]) IN
    [d EXCEPT !.book.Slug = slug]

\* The paths <slug>/<slug>.<ext> of the formats whose URL in the detail
\* record cached on fs is set and not empty.
AvailablePaths(fs, slug) ==
    IF DetailsPath(slug) \notin DOMAIN fs THEN {}
    ELSE LET d == CachedDetails(fs, slug) IN
         IF d.err # Nil THEN {}
         ELSE {Join(slug, slug \o "." \o Formats[i]) :
                  i \in {k \in 1..Len(Formats) :
                            FormatURLs(d.book)[k].u \notin {Nil, ""}}}

\* C6: an offline run issues no GET and creates no file; it ends in "done"
\* only with the listing, every detail record and every available format
\* file in the cache; and a call that misses the cache ends the run with
\* ErrOffline.
OfflineRun ==
    offline =>
        /\ netCalls = 0
        /\ created = {}
        /\ pc = "done" =>
              /\ <<BooksFile>> \in DOMAIN files
              /\ \A i \in 1..Len(books) :
                    /\ DetailsPath(books[i].Slug) \in DOMAIN files
                    /\ AvailablePaths(files, books[i].Slug) \subseteq DOMAIN files
        /\ (CalledOnce /\ IsNotExist(last.rd)) =>
              /\ pc = "aborted"
              /\ err = ErrOffline

\* C6 witness: an offline run over two cached books ended in "done".
OfflineRunWitness ==
    /\ offline
    /\ pc = "done"
    /\ Len(books) = 2
    /\ AvailablePaths(files, "lorem") # {}
    /\ netCalls = 0

\* The cache for the book of start was complete when its ObtainBook began.
Populated ==
    /\ start.slug # Nil
    /\ start.entries[start.slug] = "dir"
    /\ DetailsPath(start.slug) \in DOMAIN start.files
    /\ AvailablePaths(start.files, start.slug) \subseteq DOMAIN start.files

\* C8: when ObtainBook begins on a complete cache (the directory, the
\* detail record and every available format file), then during and after
\* it the disk is what it was and no GET has been issued.
ObtainBookIdempotent ==
    Populated =>
        /\ files = start.files
        /\ entries = start.entries
        /\ netCalls = start.net

\* C8 witness: online, ObtainBook has returned for a book whose two format
\* files and detail record were cached.
ObtainBookIdempotentWitness ==
    /\ Populated
    /\ ~offline
    /\ start.slug = "lorem"
    /\ pc = "loop"
    /\ idx = 2
    /\ Cardinality(AvailablePaths(start.files, "lorem")) = 2
    /\ DOMAIN f = {"lorem.txt", "lorem.pdf"}

\* C9: when a run ends in "done", the cache holds books.json with the
\* listing the run used and, for every book of it, the detail record and
\* the file of every format whose URL in that record is not empty; and the
\* run has created no file other than these.
SuccessfulRun ==
    pc = "done" =>
        /\ <<BooksFile>> \in DOMAIN files
        /\ UnmarshalBooks(files[<<BooksFile>>]) = [err |-> Nil, books |-> books]
        /\ \A i \in 1..Len(books) :
              /\ DetailsPath(books[i].Slug) \in DOMAIN files
              /\ CachedDetails(files, books[i].Slug).err = Nil
              /\ AvailablePaths(files, books[i].Slug) \subseteq DOMAIN files
        /\ created \subseteq
              {<<BooksFile>>}
              \cup {DetailsPath(books[i].Slug) : i \in 1..Len(books)}
              \cup UNION {AvailablePaths(files, books[i].Slug) : i \in 1..Len(books)}

\* C9 witness: the run over the one book "lorem", whose record sets the
\* text and the PDF, ended with exactly these files.
SuccessfulRunWitness ==
    /\ pc = "done"
    /\ run = 1
    /\ files[<<BooksFile>>] = ListLorem
    /\ DOMAIN files = {<<BooksFile>>, Join("lorem", DetailsFile),
                       Join("lorem", "lorem.txt"), Join("lorem", "lorem.pdf")}
    /\ created = DOMAIN files
    /\ Join("lorem", "lorem.epub") \notin DOMAIN files

\* A step of the run in which something failed: the cachedFile call or the
\* decoding of the listing or of the detail record, the creation of the
\* directory, the evaluation of Files(), the download of a format file.
StepFailed ==
    \/ /\ pc = "list"
       /\ last'.err # Nil \/ UnmarshalBooks(last'.content).err # Nil
    \/ /\ pc = "mkdir"
       /\ entries'[books[idx].Slug] = "none"
    \/ /\ pc = "details"
       /\ last'.err # Nil \/ UnmarshalDetails(last'.content).err # Nil
    \/ /\ pc = "resolve"
       /\ FilesPanics(book)
    \/ /\ pc = "files"
       /\ last' # last
       /\ last'.err # Nil

\* C10: a step in which anything fails leaves the run aborted with the
\* error; an aborted run takes no further step of its own: the disk stays
\* as it is and no GET is issued, the only step left being a new start of
\* the program.
FailFast ==
    /\ [](pc = "aborted" <=> err # Nil)
    /\ [][/\ StepFailed => (pc' = "aborted" /\ err' # Nil)
          /\ pc = "aborted" =>
                /\ run' = run + 1
                /\ pc' = "list"
                /\ netCalls' = 0
                /\ files' = files
                /\ entries' = entries]_vars

\* C10 witness: the run was aborted by the first format file of the first
\* of two books, with a file of that book still to fetch and the second
\* book's directory never made.
FailFastWitness ==
    /\ pc = "aborted"
    /\ run = 1
    /\ Len(books) = 2
    /\ idx = 1
    /\ last.path[1] = "lorem"
    /\ last.path # DetailsPath("lorem")
    /\ Cardinality(todo) = 1
    /\ entries["foo"] = "none"
    /\ DOMAIN files = {<<BooksFile>>, DetailsPath("lorem")}

\* C11: the stages of a book follow one another only in the order
\* Pending (pc = "mkdir"), DirReady ("details"), DetailLoaded ("resolve"),
\* Fetching ("files"), Done (back at "loop" with idx advanced): the detail
\* record is fetched only at DirReady, which is entered only when os.Mkdir
\* succeeded or found the name taken; DetailLoaded is entered only by a
\* detail record fetched and decoded without error; a format file is
\* fetched only at Fetching and is a key of Files() not yet visited; Done
\* is entered only from Fetching with every key of Files() fetched; and a
\* failing step leads to Aborted, from which no stage is entered again.
StageOrder ==
    [][/\ pc' = "mkdir" => (pc = "loop" /\ idx <= Len(books) /\ idx' = idx)
       /\ pc' = "details" =>
             /\ pc = "mkdir"
             /\ entries'[books[idx].Slug] # "none"
             /\ idx' = idx
       /\ pc' = "resolve" =>
             /\ pc = "details"
             /\ idx' = idx
             /\ last'.path = DetailsPath(books[idx].Slug)
             /\ last'.err = Nil
             /\ UnmarshalDetails(last'.content).err = Nil
             /\ book' = [UnmarshalDetails(last'.content).book
                            EXCEPT !.Slug = books[idx].Slug]
       /\ pc' = "files" =>
             /\ pc \in {"resolve", "files"}
             /\ idx' = idx
             /\ pc = "resolve" => todo' = DOMAIN f'
             /\ pc = "files" => (f' = f /\ last'.err = Nil)
       /\ (pc' = "loop" /\ pc # "list") =>
             /\ pc = "files"
             /\ todo = {}
             /\ {Join(books[idx].Slug, k) : k \in DOMAIN f} \subseteq fetched
             /\ idx' = idx + 1
       /\ (fetched' # fetched /\ Len(last'.path) = 2) =>
             IF last'.path[2] = DetailsFile
             THEN pc = "details" /\ last'.path[1] = books[idx].Slug
             ELSE /\ pc = "files"
                  /\ last'.path[1] = books[idx].Slug
                  /\ last'.path[2] \in todo
                  /\ todo' = todo \ {last'.path[2]}
       /\ StepFailed => pc' = "aborted"
       /\ pc = "aborted" => pc' = "list"]_vars

\* C11 witness: in the first run the first of two books went through all
\* its stages: its directory was made, its record and its two format files
\* were downloaded, and ObtainBook returned.
StageOrderWitness ==
    /\ pc = "loop"
    /\ run = 1
    /\ idx = 2
    /\ Len(books) = 2
    /\ made = {"lorem"}
    /\ created = {<<BooksFile>>, DetailsPath("lorem"),
                  Join("lorem", "lorem.txt"), Join("lorem", "lorem.pdf")}

\* Book i of the listing is Done: its detail record is cached and decodes,
\* and so is every format file the record makes available.
Complete(i) ==
    /\ DetailsPath(books[i].Slug) \in DOMAIN files
    /\ CachedDetails(files, books[i].Slug).err = Nil
    /\ AvailablePaths(files, books[i].Slug) \subseteq DOMAIN files

\* This run has not started book i: it made no directory, fetched no path
\* and wrote no file under its slug.
Untouched(i) ==
    /\ books[i].Slug \notin made
    /\ \A q \in fetched \cup created : Len(q) = 2 => q[1] # books[i].Slug

\* C12: books are processed one at a time in listing order: at every point
\* of a run, and so when it aborts at book idx, every book before idx is
\* Done and no book after idx has been started.
ListingOrder ==
    \A i \in 1..Len(books) :
        /\ i < idx => Complete(i)
        /\ i > idx => Untouched(i)

\* C12 witness: the first run aborted at the second of two books, after
\* the first was mirrored with its two format files.
ListingOrderWitness ==
    /\ pc = "aborted"
    /\ run = 1
    /\ idx = 2
    /\ Len(books) = 2
    /\ Complete(1)
    /\ Cardinality(AvailablePaths(files, "lorem")) = 2
    /\ "lorem" \in made

\* C13: once Details() has been called for a book, book.Slug is the slug
\* of the summary, whatever slug the decoded body carries and whether or
\* not the call failed; the keys of Files() and the paths of the format
\* files fetched are built from that slug.
SlugBackfill ==
    /\ (pc \in {"resolve", "files"}
        \/ (pc = "aborted" /\ start.slug # Nil
            /\ DetailsPath(start.slug) \in fetched)) =>
          book.Slug = start.slug
    /\ pc = "files" =>
          /\ book.Slug = books[idx].Slug
          /\ \A k \in DOMAIN f :
                \E i \in 1..Len(Formats) : k = books[idx].Slug \o "." \o Formats[i]
          /\ \A q \in fetched :
                (Len(q) = 2 /\ q[1] = books[idx].Slug /\ q[2] # DetailsFile) =>
                   \E i \in 1..Len(Formats) :
                      q = Join(books[idx].Slug, books[idx].Slug \o "." \o Formats[i])

\* C13 witness: the body of the record of "lorem" carries the slug "other",
\* and the file fetched is lorem/lorem.epub.
SlugBackfillWitness ==
    /\ pc = "files"
    /\ files[DetailsPath("lorem")] = DetailEpub
    /\ UnmarshalDetails(DetailEpub).book.Slug = "other"
    /\ book.Slug = "lorem"
    /\ todo = {}
    /\ last.path = Join("lorem", "lorem.epub")

\* The write of the latest call failed: ioutil.WriteFile was called and the
\* path does not hold the response body.
WriteFailed ==
    /\ CalledOnce
    /\ last.wr # Nil
    /\ (last.path \notin DOMAIN last.after
        \/ last.after[last.path] # last.resp.body)

\* C14: when the body was read and the write fails, cachedFile returns the
\* bytes of the body together with the error of the write, and the caller
\* ends the run with that error.
WriteFailure ==
    WriteFailed =>
        /\ last.net = 1
        /\ last.content = last.resp.body
        /\ last.err \in {ENOSPC, EACCES}
        /\ pc = "aborted"
        /\ err = last.err

\* C14 witness: the text of a book was downloaded, the disk was full, the
\* call returned the text with ENOSPC and the run was aborted.
WriteFailureWitness ==
    /\ WriteFailed
    /\ last.wr = "short"
    /\ last.path = Join("lorem", "lorem.txt")
    /\ last.content = FileBody
    /\ files[last.path] = ""
    /\ last.err = ENOSPC
    /\ pc = "aborted"

\* C15 as stated: ObtainBook is past step 1 only with a directory named as
\* the slug in place; and a run aborted in step 1, before any fetch for the
\* book, failed to create the directory with an error other than "exists".
DirectoryStep ==
    /\ pc \in {"details", "resolve", "files"} =>
          entries[books[idx].Slug] = "dir"
    /\ (pc = "aborted" /\ start.slug # Nil
        /\ DetailsPath(start.slug) \notin fetched) =>
          /\ entries[start.slug] = "none"
          /\ err \notin {Nil, EEXIST}
          /\ \A q \in fetched : Len(q) = 2 => q[1] # start.slug

\* C16: no step of any run deletes a file or changes the content of one;
\* a step changes the disk only by making a directory where the name was
\* free or by creating one file at a path where there was none.
WriteOnce ==
    [][/\ \A q \in DOMAIN files : q \in DOMAIN files' /\ files'[q] = files[q]
       /\ \A s \in DOMAIN entries :
             entries'[s] # entries[s] =>
                (entries[s] = "none" /\ entries'[s] = "dir")
       /\ DOMAIN entries' = DOMAIN entries
       /\ files' # files =>
             \E q \in DOMAIN files' :
                /\ q \notin DOMAIN files
                /\ q \notin unreadable
                /\ DOMAIN files' = DOMAIN files \cup {q}
                /\ entries' = entries]_vars

\* C16 witness: a second run has ended after adding files to a cache that
\* holds files of the first run.
WriteOnceWitness ==
    /\ run = 2
    /\ pc = "done"
    /\ created # {}
    /\ DOMAIN files \ created # {}
    /\ \E q \in DOMAIN files \ created : files[q] = DetailTxtPdf

\* C17: a GET is issued only for a path that is not on disk and was never
\* downloaded and written before, in this run or an earlier one; what was
\* downloaded and written stays cached.
NoRefetch ==
    /\ [](saved \subseteq DOMAIN files)
    /\ [][netCalls' = netCalls + 1 =>
             /\ last'.net = 1
             /\ last'.path \notin saved
             /\ last'.path \notin DOMAIN files]_vars

\* C17 witness: online, a later run was served the detail record an earlier
\* run had downloaded, with no GET.
NoRefetchWitness ==
    /\ run = 2
    /\ ~offline
    /\ CalledOnce
    /\ last.path = DetailsPath("lorem")
    /\ last.path \in saved
    /\ last.path \notin created
    /\ last.net = 0
    /\ netCalls = 0

\* The error of decoding content as what the path holds.
DecodeErr(filePath, content) ==
    IF filePath = <<BooksFile>> THEN UnmarshalBooks(content).err
    ELSE UnmarshalDetails(content).err

\* C18: once a listing or a detail record has been downloaded, saved and
\* found not to decode, the bytes stay cached; a later run never gets past
\* that point, and when it has fetched the path it did so with no GET and
\* is aborted there with the same decode error.
DecodePersistent ==
    poison # NoPoison =>
        /\ poison.path \in DOMAIN files
        /\ DecodeErr(poison.path, files[poison.path]) = ErrDecode
        /\ run > poison.run =>
              /\ pc # "done"
              /\ idx <= poison.idx
              /\ poison.path \in fetched =>
                    /\ pc = "aborted"
                    /\ err = ErrDecode
                    /\ idx = poison.idx
                    /\ last.path = poison.path
                    /\ last.net = 0
                    /\ last.content = files[poison.path]
              /\ pc = "aborted" => poison.path \in fetched

\* C18 witness: the record of the second book did not decode in the first
\* run; the second run, online, read it from the cache and was aborted.
DecodePersistentWitness ==
    /\ poison = [path |-> DetailsPath("foo"), idx |-> 2, run |-> 1]
    /\ run = 2
    /\ ~offline
    /\ pc = "aborted"
    /\ err = ErrDecode
    /\ last.path = DetailsPath("foo")
    /\ last.net = 0

\* C19: every run ends, in "done" or "aborted"; a run that ends in "done"
\* has every book Done; within a run no path is fetched twice, and the
\* index of the book in hand only grows, by one at each return of
\* ObtainBook, so no book is processed twice.
Termination ==
    /\ (pc = "list") ~> (pc \in {"done", "aborted"})
    /\ [](pc = "done" => \A i \in 1..Len(books) : Complete(i))
    /\ [][run' = run =>
             /\ fetched' # fetched =>
                   /\ last'.path \notin fetched
                   /\ fetched' = fetched \cup {last'.path}
             /\ (pc \in {"list", "details"} \/ (pc = "files" /\ todo # {})) =>
                   fetched' # fetched
             /\ idx' \in {idx, idx + 1}
             /\ idx' = idx + 1 <=> (pc' = "loop")
             /\ pc' = "mkdir" => Untouched(idx)]_vars

\* C19 witness: the first run over two books has ended in "done" after
\* fetching the listing, two records and three format files.
TerminationWitness ==
    /\ pc = "done"
    /\ run = 1
    /\ Len(books) = 2
    /\ idx = 3
    /\ Cardinality(fetched) = 6
    /\ netCalls = 6

(***************************************************************************)
(* Properties of Files().                                                  *)
(***************************************************************************)
\* C7: once book.Files() has been evaluated, the map f has the key
\* "<slug>.<ext>" exactly for the formats whose URL prints as a non-empty
\* string, each mapped to that format's URL, and no other key; the book
\* "foo" with only the text URL set gives {"foo.txt": that URL}.
FilesExact ==
    pc = "files" =>
        /\ \A i \in 1..Len(Formats) :
              LET fileName == book.Slug \o "." \o Formats[i]
                  j == FormatURLs(book)[i]
              IN /\ fileName \in DOMAIN f <=> String(j) # ""
                 /\ fileName \in DOMAIN f => f[fileName] = j
        /\ DOMAIN f \subseteq
              {book.Slug \o "." \o Formats[i] : i \in 1..Len(Formats)}
        /\ Cardinality(DOMAIN f) =
              Cardinality({i \in 1..Len(Formats) : String(FormatURLs(book)[i]) # ""})
        /\ (/\ book.Slug = "foo"
            /\ book.Txt.u = "http://x/a.txt"
            /\ \A i \in 2..Len(Formats) : FormatURLs(book)[i].u = "") =>
              f = [k \in {"foo.txt"} |-> [u |-> "http://x/a.txt"]]

\* C7 witness: Files() was evaluated on the book "foo" with the text URL
\* set and every other URL empty.
FilesExactWitness ==
    /\ pc = "files"
    /\ book.Slug = "foo"
    /\ book.Txt.u = "http://x/a.txt"
    /\ book.Epub.u = ""
    /\ DOMAIN f = {"foo.txt"}
    /\ todo = {"foo.txt"}

====
